---- MODULE Spec2Model ----
(***************************************************************************)
(* State-machine model of the QuanBuy React front end:                     *)
(*   - PhotoUpload          (PhotoUpload.jsx:4-124)                        *)
(*   - ShoppingInput        (ShoppingInput.jsx:4-177)                      *)
(*   - ProductResults and the shopping QuanBuyApp (ProductResults.jsx)     *)
(*   - the style-analysis QuanBuyApp (index.js) with AnalysisResults       *)
(* One page mounts one QuanBuyApp; `app` says which one.  Every event      *)
(* handler runs to completion on the UI event loop, so a handler (up to    *)
(* its first await) is one action, and the continuation after an await is  *)
(* another.                                                                *)
(***************************************************************************)
EXTENDS Integers, Sequences, FiniteSets, Bags, TLC

VARIABLES
  app,              \* which QuanBuyApp is mounted: "shopping" or "style"
  photo,            \* QuanBuyApp: photo
  uploading,        \* PhotoUpload: uploading
  reads,            \* PhotoUpload: the bag of files whose read is in flight
  searchType,       \* ShoppingInput: searchType
  promptText,       \* ShoppingInput: promptText
  selectedStores,   \* ShoppingInput: selectedStores
  draggedUrls,      \* ShoppingInput: draggedUrls
  searchResults,    \* shopping QuanBuyApp: searchResults
  isSearching,      \* shopping QuanBuyApp: isSearching
  showPhotoUpload,  \* shopping QuanBuyApp: showPhotoUpload
  questionText,     \* style QuanBuyApp: questionText
  occasion,         \* style QuanBuyApp: occasion
  budget,           \* style QuanBuyApp: budget
  analysisResults,  \* style QuanBuyApp: analysisResults
  isAnalyzing,      \* style QuanBuyApp: isAnalyzing
  sortBy,           \* ProductResults: sortBy
  filterStore,      \* ProductResults: filterStore
  activeTab,        \* AnalysisResults: activeTab
  recognition,      \* VoiceInput: the object in recognitionRef.current, by the
                    \* currentText its handlers closed over and whether it runs
  isListening,      \* VoiceInput: isListening
  transcript,       \* VoiceInput: transcript
  voiceError,       \* VoiceInput: error
  net,              \* fetch calls in flight
  ev                \* the handler that ran last, with its input and outcome
                    \* (for a response: the id of its call, and in `after`
                    \* the id of the call whose response came just before)

uploadVars == <<photo, uploading, reads>>
inputVars  == <<searchType, promptText, selectedStores, draggedUrls>>
shopVars   == <<searchResults, isSearching, showPhotoUpload>>
styleVars  == <<questionText, occasion, budget, analysisResults, isAnalyzing>>
viewVars   == <<sortBy, filterStore, activeTab>>
voiceVars  == <<recognition, isListening, transcript, voiceError>>
vars == <<app, uploadVars, inputVars, shopVars, styleVars, viewVars, voiceVars,
          net, ev>>

----------------------------------------------------------------------------
(* Bounds of the model *)

MaxCalls == 2     \* ids of the fetch calls in flight at one time
MaxReads == 2     \* file reads in flight at one time
MaxProducts == 3  \* products in one SearchResult

----------------------------------------------------------------------------
(* JavaScript values *)

Null      == [tag |-> "null"]          \* null (useState(null))
Absent    == "#absent"                 \* a key that the object does not have
Undefined == <<"#undefined">>          \* the value of a missing array element

\* Text is a sequence of one-character strings.
IsSpace(c) == c \in {" ", "\n", "\t"}

RECURSIVE TrimStart(_)
TrimStart(s) ==
  IF s # <<>> /\ IsSpace(Head(s)) THEN TrimStart(Tail(s)) ELSE s

RECURSIVE TrimEnd(_)
TrimEnd(s) ==
  IF s # <<>> /\ IsSpace(s[Len(s)]) THEN TrimEnd(SubSeq(s, 1, Len(s) - 1)) ELSE s

\* String.prototype.trim
Trim(s) == TrimEnd(TrimStart(s))

\* truthiness of a string-valued key (a missing key reads as undefined)
Truthy(s) == s # Absent /\ s # ""

Texts == {<<>>, <<" ">>, <<"t", " ">>}

----------------------------------------------------------------------------
(* Files and FileReader *)

MaxFileSize == 5 * 1024 * 1024

FileSizes == {0, MaxFileSize, MaxFileSize + 1}

\* a File: MIME type, size in bytes, and the identity of its bytes
File(t, n) == [type |-> t, size |-> n, bytes |-> "bytes" \o ToString(n)]

\* the files the user picks or drops: images around the size limit, an empty
\* image, and a small file that is not an image
Files == {File("image/png", n) : n \in FileSizes} \cup {File("text/plain", 1)}

\* the id of a new fetch call: one more than the ids of the calls in flight,
\* so that of two calls in flight the one with the larger id started later
NewId(inflight) ==
  IF inflight = {} THEN 1
  ELSE 1 + (CHOOSE i \in {r.id : r \in inflight} :
              \A r \in inflight : r.id <= i)

\* file.type.startsWith('image/')
IsImageType(t) == t \in {"image/png"}

\* base64 text of n bytes: 4 characters for every started group of 3 bytes
Base64Len(n) == 4 * ((n + 2) \div 3)

\* the base64 text of a file's bytes, as a token sequence ('' for no bytes)
Base64Of(file) ==
  IF Base64Len(file.size) = 0 THEN <<>> ELSE <<"b64:" \o file.bytes>>

\* FileReader.readAsDataURL result: data:<type>;base64,<payload>
DataURL(file) == <<"data:", file.type, ";base64", ",">> \o Base64Of(file)

\* String.prototype.split(sep): the pieces between occurrences of sep
RECURSIVE Split(_, _)
Split(s, sep) ==
  IF \A i \in 1..Len(s) : s[i] # sep
  THEN <<s>>
  ELSE LET i == CHOOSE k \in 1..Len(s) :
                   s[k] = sep /\ \A j \in 1..(k - 1) : s[j] # sep
       IN <<SubSeq(s, 1, i - 1)>> \o Split(SubSeq(s, i + 1, Len(s)), sep)

\* arr[i] with JavaScript's 0-based index; undefined past the end
At(arr, i) == IF i + 1 \in 1..Len(arr) THEN arr[i + 1] ELSE Undefined

\* the Photo handed to onPhotoSelect by reader.onload
PhotoOf(file, result) ==
  [tag |-> "photo", file |-> file,
   base64 |-> At(Split(result, ","), 1), preview |-> result]

\* FileRejection with a 50 MB limit in place of the 5 MB one
FileRejection_50MB(file) ==
  IF ~IsImageType(file.type) THEN "Please select an image file"
  ELSE IF file.size > 10 * MaxFileSize THEN "Image must be smaller than 5MB"
  ELSE ""

\* handleFileSelect's validation: the alert shown, or "" when accepted
FileRejection(file) ==
  IF ~IsImageType(file.type) THEN "Please select an image file"
  ELSE IF file.size > MaxFileSize THEN "Image must be smaller than 5MB"
  ELSE ""

----------------------------------------------------------------------------
(* Renderer: which view ProductResults / AnalysisResults shows *)

\* View that tests the result before the loading flag
View_ResultFirst(isLoading, results) ==
  IF results # Null /\ Truthy(results.error) THEN "error"
  ELSE IF isLoading THEN "loading"
  ELSE IF results = Null THEN "empty"
  ELSE "populated"

\* the branch the component takes
View(isLoading, results) ==
  IF isLoading THEN "loading"
  ELSE IF results = Null THEN "empty"
  ELSE IF Truthy(results.error) THEN "error"
  ELSE "populated"

\* the controller state of section 4.4, read off the loading flag and slot
CtlStateOf(isLoading, results) ==
  CASE View(isLoading, results) = "loading"   -> "awaiting-response"
    [] View(isLoading, results) = "empty"     -> "idle"
    [] View(isLoading, results) = "error"     -> "showing-error"
    [] View(isLoading, results) = "populated" -> "showing-results"

IsLoading == IF app = "shopping" THEN isSearching ELSE isAnalyzing
Results   == IF app = "shopping" THEN searchResults ELSE analysisResults
CtlState  == CtlStateOf(IsLoading, Results)

\* what the component returns on that branch: with no result AnalysisResults
\* returns its empty-state placeholder and ProductResults returns null
Returned(component, isLoading, results) ==
  IF View(isLoading, results) = "empty"
  THEN IF component = "ProductResults" THEN "nothing" ELSE "empty-state"
  ELSE View(isLoading, results)

Component == IF app = "shopping" THEN "ProductResults" ELSE "AnalysisResults"

\* RetryRendered for an error view without the retry button
RetryRendered_PopulatedOnly(isLoading, results) ==
  View(isLoading, results) = "populated"

\* the retry buttons are part of the error view and of the populated view
RetryRendered(isLoading, results) ==
  View(isLoading, results) \in {"error", "populated"}

----------------------------------------------------------------------------
(* Backend responses *)

SearchTypes == {"photo", "prompt", "both"}

\* Products the backend finds.  price and store are strings (sequences of
\* characters), confidence is in hundredths.  Two products tie on store and
\* confidence, two on the price; one price has a thousands separator, one
\* has no digit; one store is named like the value of the 'All Stores' option.
Catalogue ==
  <<[name |-> "lamp", confidence |-> 90,
     price |-> <<"$", "4", "2">>,
     store |-> <<"T", "a", "r", "g", "e", "t">>],
    [name |-> "desk", confidence |-> 75,
     price |-> <<"$", "1", "2", "0", ".", "0", "0">>,
     store |-> <<"A", "m", "a", "z", "o", "n">>],
    [name |-> "mug", confidence |-> 90,
     price |-> <<"$", "1", "5", ".", "5", "0">>,
     store |-> <<"T", "a", "r", "g", "e", "t">>],
    [name |-> "sofa", confidence |-> 60,
     price |-> <<"$", "1", ",", "2", "0", "0", ".", "0", "0">>,
     store |-> <<"A", "m", "a", "z", "o", "n">>],
    [name |-> "gift", confidence |-> 75,
     price |-> <<"F", "r", "e", "e">>,
     store |-> <<"E", "t", "s", "y">>],
    [name |-> "card", confidence |-> 50,
     price |-> <<"$", "4", "2">>,
     store |-> <<"a", "l", "l">>]>>

Products == SubSeq(Catalogue, 1, 2)

\* the lists of at most MaxProducts products
ProductLists ==
  UNION {{[i \in 1..n |-> Catalogue[f[i]]] :
            f \in [1..n -> 1..Len(Catalogue)]} : n \in 0..MaxProducts}

\* a SearchResult
SearchResult(products, error) ==
  [tag |-> "result", products |-> products, total_found |-> Len(products),
   stores_searched |->
     Cardinality({products[i].store : i \in 1..Len(products)}),
   error |-> error]

\* SearchResult bodies the backend answers with
SearchBodies == {SearchResult(Products, Absent), SearchResult(<<>>, "timeout")}

\* the same with an answer from another store, for runs of several searches
BrowseBodies ==
  SearchBodies \cup {SearchResult(<<Catalogue[5]>>, Absent)}

\* AnalysisResult bodies the backend answers with
AnalysisBodies ==
  {[tag |-> "result", analysis |-> "smart casual", confidence_score |-> 800,
    error |-> Absent],
   [tag |-> "result", analysis |-> Absent, error |-> "timeout"]}

StatusTexts == {"", "Not Found"}

\* how one fetch can end: a 2xx response with a JSON body, a non-2xx
\* response, a rejected fetch, or a 2xx response whose body is not JSON
Outcomes(bodies) ==
  {[kind |-> "ok", body |-> b] : b \in bodies}
    \cup {[kind |-> "status", statusText |-> s] : s \in StatusTexts}
    \cup {[kind |-> "reject", message |-> "Failed to fetch"],
          [kind |-> "badjson", message |-> "Unexpected token < in JSON"]}

\* ErrorMessage that leaves the status text out of the thrown Error
ErrorMessage_NoStatusText(prefix, outcome) ==
  IF outcome.kind = "status" THEN prefix ELSE outcome.message

\* error.message in the catch block
ErrorMessage(prefix, outcome) ==
  IF outcome.kind = "status" THEN prefix \o outcome.statusText
  ELSE outcome.message

\* SettledResult whose catch block swallows the error and clears the slot
SettledResult_Swallow(prefix, outcome) ==
  IF outcome.kind = "ok" THEN outcome.body ELSE Null

\* what the handler stores in the result slot when the call has ended
SettledResult(prefix, outcome) ==
  IF outcome.kind = "ok" THEN outcome.body
  ELSE [error |-> ErrorMessage(prefix, outcome)]

\* SettledLoading without the finally: the flag is reset on success only
SettledLoading_SuccessOnly(outcome) == outcome.kind # "ok"

\* the loading flag after the call has ended (the finally block)
SettledLoading(outcome) == FALSE

----------------------------------------------------------------------------
(* JavaScript numbers and strings used by the result views.  A string is a
   sequence of one-character strings; a number is NaN or m / 10^d. *)

NaN == [nan |-> TRUE]
Num(m, d) == [nan |-> FALSE, m |-> m, d |-> d]

RECURSIVE Pow10(_)
Pow10(n) == IF n = 0 THEN 1 ELSE 10 * Pow10(n - 1)

\* a - b
Minus(a, b) ==
  IF a.nan \/ b.nan THEN NaN
  ELSE Num(a.m * Pow10(b.d) - b.m * Pow10(a.d), a.d + b.d)

DigitChars == <<"0", "1", "2", "3", "4", "5", "6", "7", "8", "9">>
IsDigit(c) == \E i \in 1..10 : DigitChars[i] = c
DigitVal(c) == (CHOOSE i \in 1..10 : DigitChars[i] = c) - 1

\* the longest prefix of s made of digits
RECURSIVE TakeDigits(_)
TakeDigits(s) ==
  IF s # <<>> /\ IsDigit(Head(s)) THEN <<Head(s)>> \o TakeDigits(Tail(s))
  ELSE <<>>

\* the value of a sequence of digits
RECURSIVE DigitsValue(_)
DigitsValue(s) ==
  IF s = <<>> THEN 0
  ELSE 10 * DigitsValue(SubSeq(s, 1, Len(s) - 1)) + DigitVal(s[Len(s)])

\* price.replace(/[^0-9.]/g, '')
StripNonNumeric(s) == SelectSeq(s, LAMBDA c : IsDigit(c) \/ c = ".")

\* parseFloat of a string of digits and dots: the longest prefix that is a
\* decimal literal (digits, then at most one dot and digits), NaN when that
\* prefix has no digit
ParseFloat(s) ==
  LET int  == TakeDigits(s)
      rest == SubSeq(s, Len(int) + 1, Len(s))
      frac == IF rest # <<>> /\ Head(rest) = "." THEN TakeDigits(Tail(rest))
              ELSE <<>>
  IN IF int = <<>> /\ frac = <<>> THEN NaN
     ELSE Num(DigitsValue(int \o frac), Len(frac))

\* parseFloat(price.replace(/[^0-9.]/g, ''))
PriceNumber(price) == ParseFloat(StripNonNumeric(price))

LowerCase == <<"a", "b", "c", "d", "e", "f", "g", "h", "i", "j", "k", "l", "m",
               "n", "o", "p", "q", "r", "s", "t", "u", "v", "w", "x", "y", "z">>
UpperCase == <<"A", "B", "C", "D", "E", "F", "G", "H", "I", "J", "K", "L", "M",
               "N", "O", "P", "Q", "R", "S", "T", "U", "V", "W", "X", "Y", "Z">>

IsUpper(c) == \E i \in 1..26 : UpperCase[i] = c

\* the place of a letter in the alphabet, whatever its case
LetterRank(c) ==
  CHOOSE i \in 1..26 : LowerCase[i] = c \/ UpperCase[i] = c

\* lexicographic comparison of two sequences of integers: -1, 0 or 1
RECURSIVE LexCompare(_, _)
LexCompare(a, b) ==
  IF a = <<>> /\ b = <<>> THEN 0
  ELSE IF a = <<>> THEN -1
  ELSE IF b = <<>> THEN 1
  ELSE IF Head(a) < Head(b) THEN -1
  ELSE IF Head(a) > Head(b) THEN 1
  ELSE LexCompare(Tail(a), Tail(b))

\* a.localeCompare(b) for words of unaccented letters: dictionary order of
\* the letters, and between words with the same letters lower case first
LocaleCompare(a, b) ==
  LET primary == LexCompare([i \in 1..Len(a) |-> LetterRank(a[i])],
                            [i \in 1..Len(b) |-> LetterRank(b[i])])
  IN IF primary # 0 THEN primary
     ELSE LexCompare([i \in 1..Len(a) |-> IF IsUpper(a[i]) THEN 1 ELSE 0],
                     [i \in 1..Len(b) |-> IF IsUpper(b[i]) THEN 1 ELSE 0])

----------------------------------------------------------------------------
(* ProductResults: the store filter and the sort of the populated view *)

\* const { products = [] } = results
DestructuredProducts(results) ==
  IF "products" \in DOMAIN results THEN results.products ELSE <<>>

\* the value of the 'All Stores' option, and the initial filterStore
AllStores == <<"a", "l", "l">>

SortKeys == {"relevance", "price_low", "price_high", "store"}

\* the elements of a sequence, each once, in the order of first occurrence
RECURSIVE Distinct(_)
Distinct(s) ==
  IF s = <<>> THEN <<>>
  ELSE LET front == Distinct(SubSeq(s, 1, Len(s) - 1))
           last  == s[Len(s)]
       IN IF \E i \in 1..Len(front) : front[i] = last THEN front
          ELSE Append(front, last)

\* AvailableStores without the Set: one entry for every product
AvailableStores_NoSet(products) ==
  [i \in 1..Len(products) |-> products[i].store]

\* availableStores = [...new Set(products.map(p => p.store))]
AvailableStores(products) ==
  Distinct([i \in 1..Len(products) |-> products[i].store])

\* the values of the options of the store filter
StoreOptions(products) == <<AllStores>> \o AvailableStores(products)

\* products.filter(p => filterStore === 'all' || p.store === filterStore)
StoreFilter(products, store) ==
  SelectSeq(products, LAMBDA p : store = AllStores \/ p.store = store)

\* CompareFn whose relevance order is ascending
CompareFn_Ascending(key, a, b) ==
  CASE key = "price_low"  -> Minus(PriceNumber(a.price), PriceNumber(b.price))
    [] key = "price_high" -> Minus(PriceNumber(b.price), PriceNumber(a.price))
    [] key = "store"      -> Num(LocaleCompare(a.store, b.store), 0)
    [] OTHER              -> Num(a.confidence - b.confidence, 2)

\* the comparator handed to sort(): the switch on sortBy
CompareFn(key, a, b) ==
  CASE key = "price_low"  -> Minus(PriceNumber(a.price), PriceNumber(b.price))
    [] key = "price_high" -> Minus(PriceNumber(b.price), PriceNumber(a.price))
    [] key = "store"      -> Num(LocaleCompare(a.store, b.store), 0)
    [] OTHER              -> Num(b.confidence - a.confidence, 2)

\* SortCompare of Array.prototype.sort: the sign of the comparator's value,
\* +0 when the value is NaN
SortCompare(key, a, b) ==
  LET v == CompareFn(key, a, b)
  IN IF v.nan THEN 0 ELSE IF v.m < 0 THEN -1 ELSE IF v.m > 0 THEN 1 ELSE 0

\* the comparator is a consistent comparator for the elements: it orders them
\* as a total preorder
ConsistentComparator(key, elems) ==
  /\ \A a, b \in elems : SortCompare(key, a, b) = -SortCompare(key, b, a)
  /\ \A a, b, c \in elems :
       (SortCompare(key, a, b) <= 0 /\ SortCompare(key, b, c) <= 0)
         => SortCompare(key, a, c) <= 0

RECURSIVE InsertSorted(_, _, _)
InsertSorted(t, x, key) ==
  IF t # <<>> /\ SortCompare(key, t[Len(t)], x) > 0
  THEN Append(InsertSorted(SubSeq(t, 1, Len(t) - 1), x, key), t[Len(t)])
  ELSE Append(t, x)

\* the stable sort of s by the comparator
RECURSIVE StableSort(_, _)
StableSort(s, key) ==
  IF s = <<>> THEN <<>>
  ELSE InsertSorted(StableSort(SubSeq(s, 1, Len(s) - 1), key), s[Len(s)], key)

Rearrangements(s) ==
  {[i \in 1..Len(s) |-> s[p[i]]] :
     p \in {q \in [1..Len(s) -> 1..Len(s)] :
              \A i, j \in 1..Len(s) : q[i] = q[j] => i = j}}

\* the orders Array.prototype.sort can leave s in: the stable sorted order
\* when the comparator is consistent, an implementation-defined order when it
\* is not
SortOutcomes(s, key) ==
  IF ConsistentComparator(key, {s[i] : i \in 1..Len(s)})
  THEN {StableSort(s, key)}
  ELSE Rearrangements(s)

\* the lists filteredProducts can be
FilteredProducts(products, store, key) ==
  SortOutcomes(StoreFilter(products, store), key)

----------------------------------------------------------------------------
(* AnalysisResults: the confidence bar.  A confidence_score is in
   thousandths; a width is in thousandths of the bar, that is in tenths of a
   percent. *)

DefaultConfidence == 900

\* results.confidence_score || 0.9
ConfidenceOrDefault(results) ==
  IF "confidence_score" \in DOMAIN results /\ results.confidence_score # 0
  THEN results.confidence_score
  ELSE DefaultConfidence

\* width: `${(results.confidence_score || 0.9) * 100}%`
ScoreFillWidth(results) == ConfidenceOrDefault(results)

\* Math.round((results.confidence_score || 0.9) * 100)
ScoreValue(results) == (ConfidenceOrDefault(results) + 5) \div 10

----------------------------------------------------------------------------
(* Initial state: useState initial values of the mounted components *)

----------------------------------------------------------------------------
(* VoiceInput: the recognition object and the effect that makes it.  The
   effect has the dependencies [onVoiceInput, onTextChange, currentText]; the
   style QuanBuyApp passes handlers that it makes anew at each of its renders,
   so the effect runs again after every render of QuanBuyApp. *)

\* the object the effect makes: its onresult closes over currentText, and it
\* is not started
NewRecognition(currentText) == [text |-> currentText, running |-> FALSE]

AbortedError == "Speech recognition error: aborted"

\* the effect run again: the cleanup aborts the object in recognitionRef, the
\* setup stores a new one.  An aborted running recognition ends (onend), in
\* some browsers after an error event 'aborted' (onerror).
VoiceEffect(currentText) ==
  /\ recognition' = NewRecognition(currentText)
  /\ IF recognition.running
     THEN /\ isListening' = FALSE
          /\ transcript' = <<>>
          /\ voiceError' \in {voiceError, AbortedError}
     ELSE UNCHANGED <<isListening, transcript, voiceError>>

\* the step of a handler of the style QuanBuyApp: setting a state to another
\* value renders QuanBuyApp, and VoiceInput's effect follows the render
Rerender(changed) ==
  IF app = "style" /\ changed
  THEN VoiceEffect(questionText')
  ELSE UNCHANGED voiceVars

----------------------------------------------------------------------------
(* The state after mounting *)

Init ==
  /\ app \in {"shopping", "style"}
  /\ photo = Null
  /\ uploading = FALSE
  /\ reads = EmptyBag
  /\ searchType = "photo"
  /\ promptText = <<>>
  /\ selectedStores = <<>>
  /\ draggedUrls = <<>>
  /\ searchResults = Null
  /\ isSearching = FALSE
  /\ showPhotoUpload = TRUE
  /\ questionText = <<>>
  /\ occasion = ""
  /\ budget = ""
  /\ analysisResults = Null
  /\ isAnalyzing = FALSE
  /\ sortBy = "relevance"
  /\ filterStore = AllStores
  /\ activeTab = "analysis"
  /\ recognition = NewRecognition(<<>>)
  /\ isListening = FALSE
  /\ transcript = <<>>
  /\ voiceError = ""
  /\ net = {}
  /\ ev = [op |-> "mount"]

----------------------------------------------------------------------------
(* PhotoUpload *)

\* PhotoUpload is rendered always by the style app, and by the shopping app
\* when showPhotoUpload holds
PhotoUploadRendered == app = "style" \/ showPhotoUpload

\* handleFileSelect(file), reached from handleDrop and handleInputChange
HandleFileSelect(file) ==
  /\ PhotoUploadRendered
  /\ FileRejection(file) = "" => BagCardinality(reads) < MaxReads
  /\ IF FileRejection(file) # ""
     THEN /\ ev' = [op |-> "handleFileSelect", file |-> file,
                    alert |-> FileRejection(file)]
          /\ UNCHANGED uploadVars
     ELSE /\ uploading' = TRUE
          /\ reads' = reads (+) SetToBag({file})
          /\ ev' = [op |-> "handleFileSelect", file |-> file, alert |-> ""]
          /\ UNCHANGED photo
  /\ UNCHANGED <<app, viewVars, voiceVars, inputVars, shopVars, styleVars, net>>

\* reader.onload: hand the Photo to onPhotoSelect (handlePhotoSelect)
ReaderOnLoad(file) ==
  /\ BagIn(file, reads)
  /\ photo' = PhotoOf(file, DataURL(file))
  /\ uploading' = FALSE
  /\ reads' = reads (-) SetToBag({file})
  /\ ev' = [op |-> "reader.onload"]
  /\ UNCHANGED <<app, viewVars, inputVars, shopVars, styleVars, net>>
  /\ Rerender(TRUE)

\* the read fails: the reader has no onerror handler, so nothing runs
ReaderOnError(file) ==
  /\ BagIn(file, reads)
  /\ reads' = reads (-) SetToBag({file})
  /\ ev' = [op |-> "reader.onerror"]
  /\ UNCHANGED <<app, viewVars, voiceVars, photo, uploading, inputVars, shopVars, styleVars, net>>

----------------------------------------------------------------------------
(* ShoppingInput *)

\* onClick of the three search-type buttons
SetSearchType(t) ==
  /\ app = "shopping"
  /\ searchType' = t
  /\ ev' = [op |-> "setSearchType"]
  /\ UNCHANGED <<app, viewVars, voiceVars, uploadVars, promptText, selectedStores, draggedUrls,
                 shopVars, styleVars, net>>

\* onChange of the prompt textarea, rendered for 'prompt' and 'both'
SetPromptText(t) ==
  /\ app = "shopping"
  /\ searchType \in {"prompt", "both"}
  /\ promptText' = t
  /\ ev' = [op |-> "setPromptText"]
  /\ UNCHANGED <<app, viewVars, voiceVars, uploadVars, searchType, selectedStores, draggedUrls,
                 shopVars, styleVars, net>>

\* SearchButtonEnabled for a button without the disabled attribute
SearchButtonEnabled_Always(isLoading) == TRUE

\* the search button: disabled={isLoading}
SearchButtonEnabled(isLoading) == ~isLoading

\* PromptMissing without the trim(): only the empty string counts as missing
PromptMissing_NoTrim(type, text) == type = "prompt" /\ text = <<>>

\* handleSearch's validation: searchType === 'prompt' && !promptText.trim()
PromptMissing(type, text) == type = "prompt" /\ Trim(text) = <<>>

\* PhotoMissing that asks for the photo only when the type is 'photo'
PhotoMissing_PhotoOnly(type, ph) == type = "photo" /\ ph = Null

\* handleSearchRequest's validation: type !== 'prompt' && !photo
PhotoMissing(type, ph) == type # "prompt" /\ ph = Null

\* RequestBody that carries the photo whenever one is loaded
RequestBody_AnyPhoto(type, prompt, stores, ph) ==
  [search_type |-> type,
   user_id |-> "web-user",
   stores |-> [i \in 1..Len(stores) |->
                 [name |-> stores[i].name, url |-> stores[i].url]],
   image_base64 |-> IF ph # Null THEN ph.base64 ELSE Undefined,
   search_prompt |-> IF prompt # <<>> /\ type \in {"prompt", "both"}
                     THEN prompt ELSE Undefined]

\* requestBody of handleSearchRequest
RequestBody(type, prompt, stores, ph) ==
  [search_type |-> type,
   user_id |-> "web-user",
   stores |-> [i \in 1..Len(stores) |->
                 [name |-> stores[i].name, url |-> stores[i].url]],
   image_base64 |-> IF ph # Null /\ type \in {"photo", "both"}
                    THEN ph.base64 ELSE Undefined,
   search_prompt |-> IF prompt # <<>> /\ type \in {"prompt", "both"}
                     THEN prompt ELSE Undefined]

\* handleSearch, then handleSearchRequest up to its await of fetch
HandleSearch ==
  /\ LET allSelectedStores == selectedStores \o draggedUrls
         submission == [op |-> "handleSearch", type |-> searchType,
                        prompt |-> promptText]
     IN IF PromptMissing(searchType, promptText)
        THEN /\ ev' = submission @@
                      [alert |-> "Please enter what you're looking for"]
             /\ UNCHANGED <<shopVars, net>>
        ELSE IF PhotoMissing(searchType, photo)
        THEN /\ ev' = submission @@
                      [alert |-> "Please upload a photo for visual search"]
             /\ UNCHANGED <<shopVars, net>>
        ELSE /\ NewId(net) <= MaxCalls
             /\ isSearching' = TRUE
             /\ searchResults' = Null
             /\ net' = net \cup
                  {[id |-> NewId(net), path |-> "/api/search-products",
                    body |-> RequestBody(searchType, promptText,
                                         allSelectedStores, photo)]}
             /\ ev' = submission @@ [alert |-> ""]
             /\ UNCHANGED showPhotoUpload
  /\ UNCHANGED <<app, viewVars, voiceVars, uploadVars, inputVars, styleVars>>

\* a click on the search button; a disabled button dispatches no event
ClickSearch ==
  /\ app = "shopping"
  /\ IF SearchButtonEnabled(isSearching)
     THEN HandleSearch
     ELSE /\ ev' = [op |-> "click", disabled |-> TRUE]
          /\ UNCHANGED <<app, viewVars, voiceVars, uploadVars, inputVars, shopVars, styleVars, net>>

\* SearchSettled with request correlation: a response is dropped when a call
\* that started later is in flight
SearchSettled_Correlated(req, outcome) ==
  /\ app = "shopping"
  /\ req \in net
  /\ outcome \in Outcomes(SearchBodies)
  /\ searchResults' = IF \A r \in net : r.id <= req.id
                      THEN SettledResult("Search failed: ", outcome)
                      ELSE searchResults
  /\ isSearching' = SettledLoading(outcome)
  /\ net' = net \ {req}
  /\ ev' = [op |-> "settled", outcome |-> outcome, id |-> req.id,
            after |-> IF ev.op = "settled" THEN ev.id ELSE 0]
  /\ UNCHANGED <<app, viewVars, voiceVars, uploadVars, inputVars, showPhotoUpload,
                 styleVars>>

\* handleSearchRequest after its await: the response, the catch and finally
SearchSettled(req, outcome) ==
  /\ app = "shopping"
  /\ req \in net
  /\ outcome \in Outcomes(BrowseBodies)
  /\ searchResults' = SettledResult("Search failed: ", outcome)
  /\ isSearching' = SettledLoading(outcome)
  /\ net' = net \ {req}
  /\ ev' = [op |-> "settled", outcome |-> outcome, id |-> req.id,
            after |-> IF ev.op = "settled" THEN ev.id ELSE 0]
  /\ UNCHANGED <<app, viewVars, voiceVars, uploadVars, inputVars, showPhotoUpload, styleVars>>

\* shopping handleRetry, from the retry buttons of ProductResults
ShopHandleRetry ==
  /\ app = "shopping"
  /\ RetryRendered(isSearching, searchResults)
  /\ searchResults' = Null
  /\ photo' = Null
  /\ showPhotoUpload' = TRUE
  /\ ev' = [op |-> "handleRetry"]
  /\ UNCHANGED <<app, viewVars, voiceVars, uploading, reads, inputVars, isSearching, styleVars,
                 net>>

----------------------------------------------------------------------------
(* ShoppingInput: custom stores dropped as URLs *)

\* s.startsWith(prefix)
StartsWith(s, prefix) ==
  Len(s) >= Len(prefix) /\ SubSeq(s, 1, Len(prefix)) = prefix

\* the index of the first occurrence of pat in s, 0 when there is none
IndexOf(s, pat) ==
  LET at == {i \in 1..(Len(s) - Len(pat) + 1) :
               SubSeq(s, i, i + Len(pat) - 1) = pat}
  IN IF at = {} THEN 0 ELSE CHOOSE i \in at : \A j \in at : i <= j

\* s.replace(pat, ''): the first occurrence of pat is removed
RemoveFirst(s, pat) ==
  IF IndexOf(s, pat) = 0 THEN s
  ELSE SubSeq(s, 1, IndexOf(s, pat) - 1)
         \o SubSeq(s, IndexOf(s, pat) + Len(pat), Len(s))

ToUpperCase(c) ==
  IF \E i \in 1..26 : LowerCase[i] = c
  THEN UpperCase[CHOOSE i \in 1..26 : LowerCase[i] = c] ELSE c

ToLowerCase(c) ==
  IF \E i \in 1..26 : UpperCase[i] = c
  THEN LowerCase[CHOOSE i \in 1..26 : UpperCase[i] = c] ELSE c

\* the longest prefix of s without a character of the set
RECURSIVE TakeUntil(_, _)
TakeUntil(s, stops) ==
  IF s = <<>> \/ Head(s) \in stops THEN <<>>
  ELSE <<Head(s)>> \o TakeUntil(Tail(s), stops)

\* s without its leading characters of the set
RECURSIVE DropWhile(_, _)
DropWhile(s, set) ==
  IF s # <<>> /\ Head(s) \in set THEN DropWhile(Tail(s), set) ELSE s

\* new URL(url) for a string without credentials and port: the scheme is the
\* letters before the first ':'; an http(s) URL has its host after the
\* slashes that follow, up to the next '/', '?' or '#', in lower case, and
\* must have one; any other scheme has a host only after '//'.  ok is FALSE
\* when the constructor throws a TypeError.
ParseURL(url) ==
  LET scheme == TakeUntil(url, {":", "/", "?", "#"})
      rest   == SubSeq(url, Len(scheme) + 2, Len(url))
      host(s) == [i \in 1..Len(TakeUntil(s, {"/", "?", "#"})) |->
                    ToLowerCase(TakeUntil(s, {"/", "?", "#"})[i])]
  IN IF scheme = <<>> \/ Len(url) = Len(scheme)
          \/ url[Len(scheme) + 1] # ":"
          \/ \E i \in 1..Len(scheme) :
               ToLowerCase(scheme[i]) = ToUpperCase(scheme[i])
     THEN [ok |-> FALSE]
     ELSE IF [i \in 1..Len(scheme) |-> ToLowerCase(scheme[i])]
               \in {<<"h", "t", "t", "p">>, <<"h", "t", "t", "p", "s">>}
     THEN IF host(DropWhile(rest, {"/", "\\"})) = <<>> THEN [ok |-> FALSE]
          ELSE [ok |-> TRUE, hostname |-> host(DropWhile(rest, {"/", "\\"}))]
     ELSE IF StartsWith(rest, <<"/", "/">>)
     THEN [ok |-> TRUE, hostname |-> host(SubSeq(rest, 3, Len(rest)))]
     ELSE [ok |-> TRUE, hostname |-> <<>>]

\* new URL(url).hostname.replace('www.', '')
Domain(url) == RemoveFirst(ParseURL(url).hostname, <<"w", "w", "w", ".">>)

\* domain.charAt(0).toUpperCase() + domain.slice(1)
Capitalized(domain) ==
  IF domain = <<>> THEN <<>>
  ELSE <<ToUpperCase(Head(domain))>> \o Tail(domain)

NewStore(domain) ==
  [name |-> Capitalized(domain), url |-> domain, icon |-> "globe",
   custom |-> TRUE]

\* AlreadyDragged that compares the stores' names with the domain
AlreadyDragged_ByName(stores, domain) ==
  \E i \in 1..Len(stores) : stores[i].name = domain

\* draggedUrls.find(s => s.url === domain)
AlreadyDragged(stores, domain) ==
  \E i \in 1..Len(stores) : stores[i].url = domain

\* the strings the user drops on the drop zone: the empty string, a host
\* without scheme, two strings that start with http and are no URL, URLs of
\* three hosts, one host twice, and the URL of a popular store
DroppedTexts ==
  {<<>>,
   <<"a", ".", "c", "o">>,
   <<"h", "t", "t", "p", ":", "/", "/">>,
   <<"h", "t", "t", "p", "x">>,
   <<"h", "t", "t", "p", "s", ":", "/", "/", "a", ".", "c", "o">>,
   <<"h", "t", "t", "p", ":", "/", "/", "w", "w", "w", ".", "a", ".", "c", "o", "/", "x">>,
   <<"h", "t", "t", "p", "s", ":", "/", "/", "b", ".", "c", "o">>,
   <<"h", "t", "t", "p", ":", "/", "/", "C", ".", "c", "o">>,
   <<"h", "t", "t", "p", "s", ":", "/", "/", "a", "m", "a", "z", "o", "n", ".", "c", "o", "m">>}

\* handleUrlDrop: threw is the exception that ends the handler, "" for none
HandleUrlDrop(url) ==
  /\ app = "shopping"
  /\ IF url # <<>> /\ StartsWith(url, <<"h", "t", "t", "p">>)
     THEN IF ~ParseURL(url).ok
          THEN /\ ev' = [op |-> "handleUrlDrop", url |-> url,
                         threw |-> "TypeError: Invalid URL", added |-> FALSE]
               /\ UNCHANGED draggedUrls
          ELSE IF AlreadyDragged(draggedUrls, Domain(url))
          THEN /\ ev' = [op |-> "handleUrlDrop", url |-> url, threw |-> "",
                         added |-> FALSE]
               /\ UNCHANGED draggedUrls
          ELSE /\ draggedUrls' = Append(draggedUrls, NewStore(Domain(url)))
               /\ ev' = [op |-> "handleUrlDrop", url |-> url, threw |-> "",
                         added |-> TRUE]
     ELSE /\ ev' = [op |-> "handleUrlDrop", url |-> url, threw |-> "",
                    added |-> FALSE]
          /\ UNCHANGED draggedUrls
  /\ UNCHANGED <<app, viewVars, voiceVars, uploadVars, searchType, promptText,
                 selectedStores, shopVars, styleVars, net>>

\* removeCustomStore, from the remove button of the i-th custom store
RemoveCustomStore(i) ==
  /\ app = "shopping"
  /\ i \in 1..Len(draggedUrls)
  /\ draggedUrls' =
       SelectSeq(draggedUrls, LAMBDA s : s.url # draggedUrls[i].url)
  /\ ev' = [op |-> "removeCustomStore", url |-> draggedUrls[i].url]
  /\ UNCHANGED <<app, viewVars, voiceVars, uploadVars, searchType, promptText,
                 selectedStores, shopVars, styleVars, net>>

\* the store buttons the user toggles: the first MaxPopular of the grid
MaxPopular == 2

\* popularStores, an icon named by what it shows
PopularStores ==
  <<[name |-> <<"A", "m", "a", "z", "o", "n">>,
     url |-> <<"a", "m", "a", "z", "o", "n", ".", "c", "o", "m">>,
     icon |-> "package"],
    [name |-> <<"T", "a", "r", "g", "e", "t">>,
     url |-> <<"t", "a", "r", "g", "e", "t", ".", "c", "o", "m">>,
     icon |-> "target"],
    [name |-> <<"W", "a", "l", "m", "a", "r", "t">>,
     url |-> <<"w", "a", "l", "m", "a", "r", "t", ".", "c", "o", "m">>,
     icon |-> "cart"],
    [name |-> <<"B", "e", "s", "t", " ", "B", "u", "y">>,
     url |-> <<"b", "e", "s", "t", "b", "u", "y", ".", "c", "o", "m">>,
     icon |-> "plug"],
    [name |-> <<"N", "o", "r", "d", "s", "t", "r", "o", "m">>,
     url |-> <<"n", "o", "r", "d", "s", "t", "r", "o", "m", ".", "c", "o", "m">>,
     icon |-> "dress"],
    [name |-> <<"H", "o", "m", "e", " ", "D", "e", "p", "o", "t">>,
     url |-> <<"h", "o", "m", "e", "d", "e", "p", "o", "t", ".", "c", "o", "m">>,
     icon |-> "hammer"],
    [name |-> <<"W", "a", "y", "f", "a", "i", "r">>,
     url |-> <<"w", "a", "y", "f", "a", "i", "r", ".", "c", "o", "m">>,
     icon |-> "house"],
    [name |-> <<"E", "t", "s", "y">>,
     url |-> <<"e", "t", "s", "y", ".", "c", "o", "m">>,
     icon |-> "palette"]>>

\* the updater of handleStoreToggle: prev without the store if it holds one
\* of its url, prev with the store appended otherwise
Toggled(prev, store) ==
  IF \E i \in 1..Len(prev) : prev[i].url = store.url
  THEN SelectSeq(prev, LAMBDA s : s.url # store.url)
  ELSE Append(prev, store)

\* handleStoreToggle, from the k-th store button
HandleStoreToggle(k) ==
  /\ app = "shopping"
  /\ k \in 1..MaxPopular
  /\ k \in 1..Len(PopularStores)
  /\ selectedStores' = Toggled(selectedStores, PopularStores[k])
  /\ ev' = [op |-> "handleStoreToggle", store |-> k]
  /\ UNCHANGED <<app, viewVars, voiceVars, uploadVars, searchType, promptText,
                 draggedUrls, shopVars, styleVars, net>>

----------------------------------------------------------------------------
(* Style-analysis QuanBuyApp *)

\* onChange of the question textarea
SetQuestionText(t) ==
  /\ app = "style"
  /\ questionText' = t
  /\ ev' = [op |-> "setQuestionText"]
  /\ UNCHANGED <<app, viewVars, uploadVars, inputVars, shopVars, occasion, budget,
                 analysisResults, isAnalyzing, net>>
  /\ Rerender(t # questionText)

Occasions == {"", "work"}
Budgets   == {"", "under-50"}

\* onChange of the occasion select
SetOccasion(o) ==
  /\ app = "style"
  /\ occasion' = o
  /\ ev' = [op |-> "setOccasion"]
  /\ UNCHANGED <<app, viewVars, uploadVars, inputVars, shopVars, questionText, budget,
                 analysisResults, isAnalyzing, net>>
  /\ Rerender(o # occasion)

\* onChange of the budget select
SetBudget(b) ==
  /\ app = "style"
  /\ budget' = b
  /\ ev' = [op |-> "setBudget"]
  /\ UNCHANGED <<app, viewVars, uploadVars, inputVars, shopVars, questionText, occasion,
                 analysisResults, isAnalyzing, net>>
  /\ Rerender(b # budget)

\* handleAnalyze's validation: !photo || !questionText.trim()
AnalyzeInputMissing(ph, text) == ph = Null \/ Trim(text) = <<>>

\* the analyze button: disabled={!photo || !questionText.trim() || isAnalyzing}
AnalyzeButtonEnabled(ph, text, isLoading) ==
  ~(ph = Null \/ Trim(text) = <<>> \/ isLoading)

\* handleAnalyze up to its await of fetch
HandleAnalyze ==
  /\ IF AnalyzeInputMissing(photo, questionText)
     THEN /\ ev' = [op |-> "handleAnalyze",
                    alert |-> "Please upload a photo and ask a question"]
          /\ UNCHANGED <<isAnalyzing, net>>
     ELSE /\ NewId(net) <= MaxCalls
          /\ isAnalyzing' = TRUE
          /\ net' = net \cup
               {[id |-> NewId(net), path |-> "/api/analyze-style",
                 body |-> [image_base64 |-> photo.base64,
                           user_question |-> questionText,
                           occasion |-> occasion,
                           budget_range |-> budget,
                           user_id |-> "web-user"]]}
          /\ ev' = [op |-> "handleAnalyze", alert |-> ""]
  /\ UNCHANGED <<app, viewVars, uploadVars, inputVars, shopVars, questionText,
                 occasion, budget, analysisResults>>
  /\ Rerender(~AnalyzeInputMissing(photo, questionText))

\* a click on the analyze button; a disabled button dispatches no event
ClickAnalyze ==
  /\ app = "style"
  /\ IF AnalyzeButtonEnabled(photo, questionText, isAnalyzing)
     THEN HandleAnalyze
     ELSE /\ ev' = [op |-> "click", disabled |-> TRUE]
          /\ UNCHANGED <<app, viewVars, voiceVars, uploadVars, inputVars, shopVars, styleVars, net>>

\* handleAnalyze after its await: the response, the catch and finally
AnalyzeSettled(req, outcome) ==
  /\ app = "style"
  /\ req \in net
  /\ outcome \in Outcomes(AnalysisBodies)
  /\ analysisResults' = SettledResult("Analysis failed: ", outcome)
  /\ isAnalyzing' = SettledLoading(outcome)
  /\ net' = net \ {req}
  /\ ev' = [op |-> "settled", outcome |-> outcome, id |-> req.id,
            after |-> IF ev.op = "settled" THEN ev.id ELSE 0]
  /\ UNCHANGED <<app, viewVars, uploadVars, inputVars, shopVars, questionText,
                 occasion, budget>>
  /\ Rerender(TRUE)

\* style handleRetry, from the retry buttons of AnalysisResults
StyleHandleRetry ==
  /\ app = "style"
  /\ RetryRendered(isAnalyzing, analysisResults)
  /\ analysisResults' = Null
  /\ photo' = Null
  /\ questionText' = <<>>
  /\ occasion' = ""
  /\ budget' = ""
  /\ ev' = [op |-> "handleRetry"]
  /\ UNCHANGED <<app, viewVars, uploading, reads, inputVars, shopVars, isAnalyzing,
                 net>>
  /\ Rerender(TRUE)

----------------------------------------------------------------------------
(* The specification *)

Next ==
  \/ \E file \in Files : HandleFileSelect(file)
  \/ \E file \in Files : ReaderOnLoad(file)
  \/ \E file \in Files : ReaderOnError(file)
  \/ \E t \in SearchTypes : SetSearchType(t)
  \/ \E t \in Texts : SetPromptText(t)
  \/ ClickSearch
  \/ \E req \in net : \E o \in Outcomes(SearchBodies) : SearchSettled(req, o)
  \/ ShopHandleRetry
  \/ \E t \in Texts : SetQuestionText(t)
  \/ \E o \in Occasions : SetOccasion(o)
  \/ \E b \in Budgets : SetBudget(b)
  \/ ClickAnalyze
  \/ \E req \in net : \E o \in Outcomes(AnalysisBodies) : AnalyzeSettled(req, o)
  \/ StyleHandleRetry

Spec == Init /\ [][Next]_vars

----------------------------------------------------------------------------
(* The search handler under overlapping invocations (section 8): the shopping
   app with handleSearch invoked whatever the loading flag is, which the
   disabled attribute of the rendered search button otherwise prevents.
   The searches are photo searches: the prompt stays empty. *)

InvokeSearch ==
  /\ app = "shopping"
  /\ HandleSearch

InitOverlap ==
  /\ Init
  /\ app = "shopping"

NextOverlap ==
  \/ \E file \in Files : HandleFileSelect(file)
  \/ \E file \in Files : ReaderOnLoad(file)
  \/ \E t \in SearchTypes : SetSearchType(t)
  \/ InvokeSearch
  \/ \E req \in net : \E o \in Outcomes(SearchBodies) : SearchSettled(req, o)
  \/ ShopHandleRetry

SpecOverlap == InitOverlap /\ [][NextOverlap]_vars

----------------------------------------------------------------------------
(* The result views with the props a parent gives them (mountProductResults,
   mountAnalysisResults, or the QuanBuyApp that renders them): every pair of
   isLoading and results, and the controls of the populated view *)

\* the results prop of ProductResults
SearchResultProps ==
  {Null, [error |-> "Search failed: Not Found"]}
    \cup {SearchResult(l, Absent) : l \in ProductLists}
    \cup {SearchResult(<<>>, "timeout"), SearchResult(Products, "")}
    \cup {[tag |-> "result", total_found |-> 0, stores_searched |-> 0,
           error |-> Absent]}

ConfidenceScores == {0, 5, 800, 855, 1000}

\* the results prop of AnalysisResults
AnalysisResultProps ==
  {Null, [error |-> "Analysis failed: Not Found"]}
    \cup {[tag |-> "result", analysis |-> "smart casual",
           confidence_score |-> c, error |-> e] :
            c \in ConfidenceScores, e \in {Absent, "timeout", ""}}
    \cup {[tag |-> "result", analysis |-> "smart casual", error |-> Absent]}

InitRender ==
  /\ app \in {"shopping", "style"}
  /\ photo = Null
  /\ uploading = FALSE
  /\ reads = EmptyBag
  /\ searchType = "photo"
  /\ promptText = <<>>
  /\ selectedStores = <<>>
  /\ draggedUrls = <<>>
  /\ isSearching \in IF app = "shopping" THEN BOOLEAN ELSE {FALSE}
  /\ searchResults \in IF app = "shopping" THEN SearchResultProps ELSE {Null}
  /\ showPhotoUpload = TRUE
  /\ questionText = <<>>
  /\ occasion = ""
  /\ budget = ""
  /\ isAnalyzing \in IF app = "style" THEN BOOLEAN ELSE {FALSE}
  /\ analysisResults \in IF app = "style" THEN AnalysisResultProps ELSE {Null}
  /\ sortBy = "relevance"
  /\ filterStore = AllStores
  /\ activeTab = "analysis"
  /\ recognition = NewRecognition(<<>>)
  /\ isListening = FALSE
  /\ transcript = <<>>
  /\ voiceError = ""
  /\ net = {}
  /\ ev = [op |-> "mount"]

\* SetSortBy whose render sorts results.products itself, not a filtered copy
SetSortBy_InPlace(key) ==
  /\ app = "shopping"
  /\ View(isSearching, searchResults) = "populated"
  /\ key \in SortKeys
  /\ sortBy' = key
  /\ searchResults' =
       IF "products" \in DOMAIN searchResults
       THEN [searchResults EXCEPT !.products = StableSort(@, key)]
       ELSE searchResults
  /\ ev' = [op |-> "setSortBy", value |-> key]
  /\ UNCHANGED <<app, voiceVars, uploadVars, inputVars, isSearching, showPhotoUpload,
                 styleVars, filterStore, activeTab, net>>

\* the sort select: onChange={(e) => setSortBy(e.target.value)}
SetSortBy(key) ==
  /\ app = "shopping"
  /\ View(isSearching, searchResults) = "populated"
  /\ key \in SortKeys
  /\ sortBy' = key
  /\ ev' = [op |-> "setSortBy", value |-> key]
  /\ UNCHANGED <<app, voiceVars, uploadVars, inputVars, shopVars, styleVars, filterStore,
                 activeTab, net>>

\* the store select: the user picks its i-th option
SetFilterStore(i) ==
  /\ app = "shopping"
  /\ View(isSearching, searchResults) = "populated"
  /\ LET options == StoreOptions(DestructuredProducts(searchResults))
     IN /\ i \in 1..Len(options)
        /\ filterStore' = options[i]
        /\ ev' = [op |-> "setFilterStore", option |-> i, value |-> options[i]]
  /\ UNCHANGED <<app, voiceVars, uploadVars, inputVars, shopVars, styleVars, sortBy,
                 activeTab, net>>

Tabs == {"analysis", "recommendations", "tips"}

\* the tab buttons: onClick={() => setActiveTab(...)}
SetActiveTab(tab) ==
  /\ app = "style"
  /\ View(isAnalyzing, analysisResults) = "populated"
  /\ tab \in Tabs
  /\ activeTab' = tab
  /\ ev' = [op |-> "setActiveTab", value |-> tab]
  /\ UNCHANGED <<app, voiceVars, uploadVars, inputVars, shopVars, styleVars, sortBy,
                 filterStore, net>>

NextRender ==
  \/ \E key \in SortKeys : SetSortBy(key)
  \/ \E i \in 1..(MaxProducts + 1) : SetFilterStore(i)
  \/ \E tab \in Tabs : SetActiveTab(tab)

SpecRender == InitRender /\ [][NextRender]_vars

----------------------------------------------------------------------------
(* ShoppingInput with its store list: the popular stores toggled and the
   custom stores dropped on and removed from the drop zone *)

InitStores ==
  /\ Init
  /\ app = "shopping"

NextStores ==
  \/ \E k \in 1..MaxPopular : HandleStoreToggle(k)
  \/ \E url \in DroppedTexts : HandleUrlDrop(url)
  \/ \E i \in 1..Cardinality(DroppedTexts) : RemoveCustomStore(i)

SpecStores == InitStores /\ [][NextStores]_vars

----------------------------------------------------------------------------
(* The shopping app browsed over several searches: prompt searches whose
   answers list different stores, the controls of the populated view, and
   retry.  ProductResults stays mounted throughout, so its sortBy and
   filterStore live across results. *)

InitBrowse ==
  /\ Init
  /\ app = "shopping"

NextBrowse ==
  \/ \E t \in SearchTypes : SetSearchType(t)
  \/ \E t \in Texts : SetPromptText(t)
  \/ ClickSearch
  \/ \E req \in net : \E o \in Outcomes(BrowseBodies) : SearchSettled(req, o)
  \/ ShopHandleRetry
  \/ \E key \in SortKeys : SetSortBy(key)
  \/ \E i \in 1..(MaxProducts + 1) : SetFilterStore(i)

SpecBrowse == InitBrowse /\ [][NextBrowse]_vars

----------------------------------------------------------------------------
(* The question box of the style app with VoiceInput, in a browser that has
   speech recognition.  A handler of the recognition object runs outside the
   event handling of React, so the render its state update asks for, and the
   effect after that render, come in a later step; a discrete event (typing,
   a select) is rendered, effect included, in its own step. *)

\* the longest question text, in characters
MaxText == 4

\* what the recognition hears: one result in each result event
Segments == {<<"a">>, <<"b">>}

RecognitionErrors == {"no-speech"}

\* recognition.start() and the onstart that follows
StartListening ==
  /\ recognition' = [recognition EXCEPT !.running = TRUE]
  /\ isListening' = TRUE
  /\ voiceError' = ""
  /\ UNCHANGED transcript

\* recognition.stop() and the onend that follows
StopListening ==
  /\ recognition' = [recognition EXCEPT !.running = FALSE]
  /\ isListening' = FALSE
  /\ transcript' = <<>>
  /\ UNCHANGED voiceError

\* toggleListening, from the voice button (disabled={!!error})
ToggleListening ==
  /\ app = "style"
  /\ voiceError = ""
  /\ IF isListening THEN StopListening ELSE StartListening
  /\ ev' = [op |-> "toggleListening", started |-> ~isListening]
  /\ UNCHANGED <<app, uploadVars, inputVars, shopVars, styleVars, viewVars, net>>

\* startListening, from 'Try Again' of the error panel
TryAgain ==
  /\ app = "style"
  /\ voiceError # ""
  /\ IF ~isListening THEN StartListening ELSE UNCHANGED voiceVars
  /\ ev' = [op |-> "startListening", started |-> ~isListening]
  /\ UNCHANGED <<app, uploadVars, inputVars, shopVars, styleVars, viewVars, net>>

\* recognition.onresult with one result: the transcript is shown, and a final
\* one is handed to onVoiceInput (a console.log) and, after the currentText of
\* the closure and a space, to onTextChange, which is setQuestionText
RecognitionOnResult(final, segment) ==
  /\ app = "style"
  /\ recognition.running
  /\ transcript' = segment
  /\ IF final
     THEN /\ questionText' = recognition.text \o <<" ">> \o segment
          /\ Len(questionText') <= MaxText
     ELSE UNCHANGED questionText
  /\ ev' = [op |-> "recognition.onresult", final |-> final,
            segment |-> segment]
  /\ UNCHANGED <<app, uploadVars, inputVars, shopVars, occasion, budget,
                 analysisResults, isAnalyzing, viewVars, recognition,
                 isListening, voiceError, net>>

\* recognition.onerror, and the onend that follows the error
RecognitionOnError(error) ==
  /\ app = "style"
  /\ recognition.running
  /\ recognition' = [recognition EXCEPT !.running = FALSE]
  /\ voiceError' = "Speech recognition error: " \o error
  /\ isListening' = FALSE
  /\ transcript' = <<>>
  /\ ev' = [op |-> "recognition.onerror"]
  /\ UNCHANGED <<app, uploadVars, inputVars, shopVars, styleVars, viewVars, net>>

\* the render asked for by onresult, and the effect after it: currentText is
\* no longer the one the effect ran with
RunVoiceEffect ==
  /\ app = "style"
  /\ recognition.text # questionText
  /\ VoiceEffect(questionText)
  /\ ev' = [op |-> "useEffect"]
  /\ UNCHANGED <<app, uploadVars, inputVars, shopVars, styleVars, viewVars, net>>

InitVoice ==
  /\ Init
  /\ app = "style"

NextVoice ==
  \/ ToggleListening
  \/ TryAgain
  \/ \E final \in BOOLEAN : \E segment \in Segments :
       RecognitionOnResult(final, segment)
  \/ \E error \in RecognitionErrors : RecognitionOnError(error)
  \/ RunVoiceEffect
  \/ \E t \in Texts : SetQuestionText(t)
  \/ \E o \in Occasions : SetOccasion(o)

SpecVoice == InitVoice /\ [][NextVoice]_vars

----------------------------------------------------------------------------
(* Properties *)

\* the step issued one call to the given backend path
Dispatched(path) ==
  \E r \in net' : r \notin net /\ r.path = path /\ net' = net \cup {r}

\* the step issued no call and left the shopping loading flag and slot alone
ShopBlocked == UNCHANGED <<net, isSearching, searchResults>>

\* the step issued no call and left the style loading flag and slot alone
StyleBlocked == UNCHANGED <<net, isAnalyzing, analysisResults>>

\* C1 as stated: every handleSearch of type 'prompt' proceeds to one call to
\* /api/search-products when the prompt text is non-empty, and is blocked with
\* no call and the loading flag and result slot unchanged when it is empty.
C1_Original ==
  [][(ev'.op = "handleSearch" /\ ev'.type = "prompt") =>
       IF ev'.prompt # <<>>
       THEN ev'.alert = "" /\ Dispatched("/api/search-products")
       ELSE ev'.alert # "" /\ ShopBlocked]_vars

\* C1 amended: every handleSearch of type 'prompt' proceeds to one call to
\* /api/search-products when the prompt text has a non-whitespace character,
\* and is blocked (alert, no call, loading flag and result slot unchanged)
\* when the text is empty or whitespace only.
C1_PromptGate ==
  [][(ev'.op = "handleSearch" /\ ev'.type = "prompt") =>
       IF Trim(ev'.prompt) # <<>>
       THEN ev'.alert = "" /\ Dispatched("/api/search-products")
       ELSE ev'.alert # "" /\ ShopBlocked]_vars

\* a whitespace-only prompt submission has been blocked
C1_Witness ==
  /\ ev.op = "handleSearch"
  /\ ev.type = "prompt"
  /\ ev.prompt = <<" ">>
  /\ ev.alert = "Please enter what you're looking for"

\* C2: every dispatched SearchRequest has image data when its search_type is
\* photo or both, and a non-empty prompt text when it is prompt or both.
C2_RequestInvariant ==
  \A r \in net : r.path = "/api/search-products" =>
    /\ r.body.search_type \in {"photo", "both"} =>
         r.body.image_base64 # Undefined
    /\ r.body.search_type \in {"prompt", "both"} =>
         (r.body.search_prompt # Undefined /\ r.body.search_prompt # <<>>)

\* C3: a submission without a required input issues no call and leaves the
\* loading flag and the result slot unchanged: a shopping search of type photo
\* or both with no photo (with an alert), and a style-analysis request with no
\* photo or a blank question.
C3_MissingInputBlocked ==
  [][/\ (ev'.op = "handleSearch" /\ ev'.type \in {"photo", "both"}
           /\ photo = Null)
        => (ev'.alert # "" /\ ShopBlocked)
     /\ (app = "style" /\ ev'.op \in {"handleAnalyze", "click"}
           /\ (photo = Null \/ Trim(questionText) = <<>>))
        => StyleBlocked]_vars

\* a search of type both was submitted with no photo and got the photo alert
C3_Witness ==
  /\ ev.op = "handleSearch"
  /\ ev.type = "both"
  /\ photo = Null
  /\ ev.alert = "Please upload a photo for visual search"

\* C4: handleFileSelect rejects every file that is not of an image type and
\* every file larger than 5 MB with a message; the rejection starts no read,
\* does not raise the uploading flag, and leaves the photo as it was.
C4_RejectedFileNoChange ==
  [][(ev'.op = "handleFileSelect"
        /\ (~IsImageType(ev'.file.type) \/ ev'.file.size > 5 * 1024 * 1024))
     => /\ ev'.alert # ""
        /\ UNCHANGED <<photo, uploading, reads>>]_vars

\* an image one byte over the limit was rejected while no read was running
C4_Witness ==
  /\ ev.op = "handleFileSelect"
  /\ IsImageType(ev.file.type)
  /\ ev.file.size = 5 * 1024 * 1024 + 1
  /\ ev.alert = "Image must be smaller than 5MB"
  /\ uploading = FALSE
  /\ reads = EmptyBag

\* C5: every image file of at most 5 MB (0 bytes and exactly 5 MB included) is
\* accepted and read, and reader.onload hands over a Photo of that file whose
\* base64 is non-empty and is the preview with the part up to the first comma
\* removed.
C5_UploadNonEmptyBase64 ==
  [][/\ (ev'.op = "handleFileSelect" /\ IsImageType(ev'.file.type)
           /\ ev'.file.size <= 5 * 1024 * 1024)
        => (ev'.alert = "" /\ uploading'
              /\ reads' = reads (+) SetToBag({ev'.file}))
     /\ ev'.op = "reader.onload"
        => /\ BagIn(photo'.file, reads)
           /\ reads' = reads (-) SetToBag({photo'.file})
           /\ \E k \in 1..Len(photo'.preview) :
                /\ photo'.preview[k] = ","
                /\ \A j \in 1..(k - 1) : photo'.preview[j] # ","
                /\ photo'.base64 =
                     SubSeq(photo'.preview, k + 1, Len(photo'.preview))
           /\ photo'.base64 = Base64Of(photo'.file)
           /\ photo'.base64 # <<>>]_vars

\* the fixed backend path of the mounted controller
BackendPath ==
  IF app = "shopping" THEN "/api/search-products" ELSE "/api/analyze-style"

\* the step is a submission that passed validation
AcceptedSubmit == ev'.op \in {"handleSearch", "handleAnalyze"} /\ ev'.alert = ""

\* C6: each accepted submission issues exactly one call to the fixed backend
\* path, nothing else ever issues a call (no retry), and the loading flag is
\* true exactly while a call is in flight, whatever the outcome of the call.
C6_OneCallAndLoadingFlag ==
  /\ [](IsLoading <=> net # {})
  /\ [][IF AcceptedSubmit THEN Dispatched(BackendPath)
        ELSE IF ev'.op = "settled" THEN \E r \in net : net' = net \ {r}
        ELSE net' = net]_vars

\* a call ended with an unparsable body and the loading flag is down again
C6_Witness ==
  /\ ev.op = "settled"
  /\ ev.outcome.kind = "badjson"
  /\ ~IsLoading
  /\ net = {}

\* the prefix of the Error thrown on a non-success status
FailurePrefix ==
  IF app = "shopping" THEN "Search failed: " ELSE "Analysis failed: "

\* C7: after a failed call the result slot holds an error-only result: on a
\* non-success status its error carries the status text, on a transport
\* failure the exception's message; the controller is in showing-error and
\* the renderer shows the error view with the retry action.
C7_FailureShowsError ==
  (ev.op = "settled" /\ ev.outcome.kind # "ok") =>
    /\ DOMAIN Results = {"error"}
    /\ ev.outcome.kind = "status" =>
         Results.error = FailurePrefix \o ev.outcome.statusText
    /\ ev.outcome.kind = "reject" => Results.error = ev.outcome.message
    /\ CtlState = "showing-error"
    /\ View(IsLoading, Results) = "error"
    /\ RetryRendered(IsLoading, Results)

\* a 404 has ended a search and its status text is on display
C7_Witness ==
  /\ app = "shopping"
  /\ ev.op = "settled"
  /\ ev.outcome.kind = "status"
  /\ ev.outcome.statusText = "Not Found"
  /\ searchResults = [error |-> "Search failed: Not Found"]

ParsedOk  == ev'.op = "settled" /\ ev'.outcome.kind = "ok"
CallFailed == ev'.op = "settled" /\ ev'.outcome.kind # "ok"
RetryStep == ev'.op = "handleRetry"

\* C8 as stated: the controller state changes only by idle -> awaiting on an
\* accepted submit, awaiting -> showing-results on a parsed JSON body,
\* awaiting -> showing-error on a failure, showing-* -> idle on retry; and
\* every parsed JSON body leads to showing-results.
C8_Original ==
  [][/\ CtlState' # CtlState =>
          \/ /\ CtlState = "idle"
             /\ CtlState' = "awaiting-response"
             /\ AcceptedSubmit
          \/ /\ CtlState = "awaiting-response"
             /\ CtlState' = "showing-results"
             /\ ParsedOk
          \/ /\ CtlState = "awaiting-response"
             /\ CtlState' = "showing-error"
             /\ CallFailed
          \/ /\ CtlState \in {"showing-results", "showing-error"}
             /\ CtlState' = "idle"
             /\ RetryStep
     /\ ParsedOk => CtlState' = "showing-results"]_vars

\* C8 amended: the controller state changes only by idle, showing-results or
\* showing-error -> awaiting on an accepted submit; awaiting -> showing-results
\* on a parsed body without an error; awaiting -> showing-error on a failure
\* or on a parsed body that carries an error; showing-* -> idle on retry.
\* Every accepted submit leads to awaiting, every parsed body without an
\* error to showing-results, every failure to showing-error, every retry to
\* idle.
C8_Transitions ==
  [][/\ CtlState' # CtlState =>
          \/ /\ CtlState \in {"idle", "showing-results", "showing-error"}
             /\ CtlState' = "awaiting-response"
             /\ AcceptedSubmit
          \/ /\ CtlState = "awaiting-response"
             /\ CtlState' = "showing-results"
             /\ ParsedOk /\ ~Truthy(ev'.outcome.body.error)
          \/ /\ CtlState = "awaiting-response"
             /\ CtlState' = "showing-error"
             /\ CallFailed \/ (ParsedOk /\ Truthy(ev'.outcome.body.error))
          \/ /\ CtlState \in {"showing-results", "showing-error"}
             /\ CtlState' = "idle"
             /\ RetryStep
     /\ AcceptedSubmit => CtlState' = "awaiting-response"
     /\ (ParsedOk /\ ~Truthy(ev'.outcome.body.error))
          => CtlState' = "showing-results"
     /\ CallFailed => CtlState' = "showing-error"
     /\ RetryStep => CtlState' = "idle"]_vars

\* a new analysis was submitted from showing-results: the call is in flight
\* and the slot still holds the earlier result
C8_Witness ==
  /\ app = "style"
  /\ ev.op = "handleAnalyze"
  /\ isAnalyzing
  /\ analysisResults # Null
  /\ ~Truthy(analysisResults.error)

\* C9: after handleRetry the controller is idle with the photo null, the
\* prompt / question text empty and the result slot null, in both controllers.
C9_RetryClearsAll ==
  ev.op = "handleRetry" =>
    /\ CtlState = "idle"
    /\ photo = Null
    /\ Results = Null
    /\ IF app = "shopping" THEN promptText = <<>> ELSE questionText = <<>>

\* some step of the UI issues a call
IssuesCall == Next /\ Cardinality(net') > Cardinality(net)

\* C10 as stated: while one request is outstanding the rendered controls can
\* issue a second one.
C10_Original == net # {} => ENABLED IssuesCall

\* C10 amended: while a request is outstanding the submit button is disabled,
\* so the rendered controls issue no second request and at most one request
\* is in flight at any time.
C10_AtMostOneInFlight ==
  /\ Cardinality(net) <= 1
  /\ net # {} => ~ENABLED IssuesCall

\* the submit button was clicked while a request was outstanding
C10_Witness ==
  /\ net # {}
  /\ ev.op = "click"
  /\ ev.disabled

\* C11: with two overlapping invocations of the search handler, the result
\* slot holds the result of the response that arrived last, whichever call
\* started later: every response writes its own result into the slot.
C11_LastResolvedWins ==
  (app = "shopping" /\ ev.op = "settled") =>
    searchResults = IF ev.outcome.kind = "ok" THEN ev.outcome.body
                    ELSE [error |-> ErrorMessage("Search failed: ",
                                                 ev.outcome)]

\* call 2 started while call 1 was in flight, its response came first, and
\* the response of call 1, coming last, is what the slot holds
C11_Witness ==
  /\ ev.op = "settled"
  /\ ev.id = 1
  /\ ev.after = 2
  /\ net = {}
  /\ ev.outcome.kind = "ok"
  /\ searchResults = ev.outcome.body

\* C12 as stated: for every (isLoading, results) both components show the
\* loading view when isLoading, otherwise an empty-state placeholder when
\* there is no result, otherwise the error view when the result carries an
\* error, otherwise the populated view.
C12_Original ==
  Returned(Component, IsLoading, Results) =
    IF IsLoading THEN "loading"
    ELSE IF Results = Null THEN "empty-state"
    ELSE IF Results.error # Absent THEN "error"
    ELSE "populated"

\* C12 amended: for every (isLoading, results) the component takes exactly
\* one of four branches: loading when isLoading; otherwise, with no result,
\* AnalysisResults shows its empty-state placeholder and ProductResults
\* renders nothing; otherwise the error view with the retry control when the
\* result's error is a non-empty string; otherwise the populated view.
C12_Precedence ==
  /\ Returned(Component, IsLoading, Results) =
       IF IsLoading THEN "loading"
       ELSE IF Results = Null
       THEN IF app = "shopping" THEN "nothing" ELSE "empty-state"
       ELSE IF Results.error \notin {Absent, ""} THEN "error"
       ELSE "populated"
  /\ Returned(Component, IsLoading, Results) = "error"
       => RetryRendered(IsLoading, Results)

\* the loading view is shown although the result carries an error
C12_Witness ==
  /\ app = "style"
  /\ isAnalyzing
  /\ analysisResults # Null
  /\ analysisResults.error = "timeout"
  /\ Returned(Component, IsLoading, Results) = "loading"

\* the result slot holds an error result
SlotHoldsError == Results # Null /\ Truthy(Results.error)

\* C13 as stated: once the result slot holds an error result the renderer
\* shows the error panel with the retry control, and no network call is
\* issued while the slot holds it, that is until retry has been clicked.
C13_Original ==
  /\ [](SlotHoldsError =>
          (View(IsLoading, Results) = "error"
             /\ RetryRendered(IsLoading, Results)))
  /\ [][SlotHoldsError => net' \subseteq net]_vars

\* C13 amended: when the slot holds an error result and no call is in flight
\* the renderer shows the error panel with the retry control; neither the
\* renderer nor the retry click issues a network call, but the submit button
\* is not disabled by the error, so a call is issued from this state exactly
\* by a new accepted submission, which needs no retry click.
C13_NoAutomaticRetry ==
  /\ []((SlotHoldsError /\ net = {}) =>
          (View(IsLoading, Results) = "error"
             /\ RetryRendered(IsLoading, Results)
             /\ (app = "shopping" => SearchButtonEnabled(isSearching))))
  /\ [][SlotHoldsError =>
          /\ ~(net' \subseteq net) <=> AcceptedSubmit
          /\ RetryStep => (net' = net /\ Results' = Null)]_vars

\* a call was submitted from the error panel, without a retry click: it is in
\* flight while the slot still holds the error result
C13_Witness ==
  /\ SlotHoldsError
  /\ ev.op = "handleAnalyze"
  /\ ev.alert = ""
  /\ net # {}

\* C14: no error is fatal: after every error path the UI returns to an
\* interactive state with the loading flag and the uploading flag false.  Once
\* no file read and no call is pending nothing more will happen by itself, so
\* then the uploading flag, respectively the loading flag, is false already.
C14_NoErrorIsFatal ==
  /\ reads = EmptyBag => ~uploading
  /\ net = {} => ~IsLoading

\* the populated view of ProductResults is shown
ProductsShown ==
  app = "shopping" /\ View(isSearching, searchResults) = "populated"

\* the lists the products grid can show
Displayed ==
  FilteredProducts(DestructuredProducts(searchResults), filterStore, sortBy)

\* both are numbers and a < b
NumLess(a, b) ==
  ~a.nan /\ ~b.nan /\ a.m * Pow10(b.d) < b.m * Pow10(a.d)

\* C15: under the price-ascending key the displayed products are ordered by
\* the number parsed from the stripped price string, no product standing
\* before one with a smaller number; under the price-descending key no
\* product stands before one with a larger number; for every list of price
\* strings, those with thousands separators or without digits included.
C15_PriceOrder ==
  ProductsShown =>
    \A out \in Displayed : \A i, j \in 1..Len(out) : i < j =>
      /\ sortBy = "price_low" =>
           ~NumLess(PriceNumber(out[j].price), PriceNumber(out[i].price))
      /\ sortBy = "price_high" =>
           ~NumLess(PriceNumber(out[i].price), PriceNumber(out[j].price))

\* a and b hold the same elements the same number of times
SameMultiset(a, b) ==
  /\ Len(a) = Len(b)
  /\ \A x \in {a[i] : i \in 1..Len(a)} \cup {b[i] : i \in 1..Len(b)} :
       Cardinality({i \in 1..Len(a) : a[i] = x})
         = Cardinality({i \in 1..Len(b) : b[i] = x})

\* the products of the result that pass the store filter, in result order
Filtered == StoreFilter(DestructuredProducts(searchResults), filterStore)

\* C16: under the relevance key (the default) the displayed list is a
\* permutation of the result's products in non-increasing confidence; under
\* the store key it is one in non-decreasing dictionary order of the store
\* name; products that tie on the key keep their order from the result.
C16_RelevanceAndStoreOrder ==
  ProductsShown =>
    \A out \in Displayed :
      /\ sortBy = "relevance" =>
           /\ SameMultiset(out, Filtered)
           /\ \A i \in 1..(Len(out) - 1) :
                out[i].confidence >= out[i + 1].confidence
           /\ \A k \in 1..Len(out) :
                SelectSeq(out, LAMBDA p : p.confidence = out[k].confidence)
                  = SelectSeq(Filtered,
                              LAMBDA p : p.confidence = out[k].confidence)
      /\ sortBy = "store" =>
           /\ SameMultiset(out, Filtered)
           /\ \A i \in 1..(Len(out) - 1) :
                LocaleCompare(out[i].store, out[i + 1].store) <= 0
           /\ \A k \in 1..Len(out) :
                SelectSeq(out, LAMBDA p : p.store = out[k].store)
                  = SelectSeq(Filtered, LAMBDA p : p.store = out[k].store)

\* the store key was chosen and the sort moved products, two different
\* products of one store standing next to each other
C16_Witness ==
  /\ ProductsShown
  /\ ev.op = "setSortBy"
  /\ sortBy = "store"
  /\ \E out \in Displayed :
       /\ out # Filtered
       /\ \E i \in 1..(Len(out) - 1) :
            out[i].store = out[i + 1].store /\ out[i] # out[i + 1]

\* every element of a is in b at least as many times as in a
SubMultiset(a, b) ==
  \A x \in {a[i] : i \in 1..Len(a)} :
    Cardinality({i \in 1..Len(a) : a[i] = x})
      <= Cardinality({i \in 1..Len(b) : b[i] = x})

\* the store names among the products of the result
StoreNames ==
  {DestructuredProducts(searchResults)[i].store :
     i \in 1..Len(DestructuredProducts(searchResults))}

\* the options after 'All Stores' are the distinct store names, each once
OptionsAreStoreNames ==
  LET options == AvailableStores(DestructuredProducts(searchResults))
  IN /\ {options[i] : i \in 1..Len(options)} = StoreNames
     /\ \A i, j \in 1..Len(options) : options[i] = options[j] => i = j

\* the products of the result sold by the store, in result order
ProductsOf(store) ==
  SelectSeq(DestructuredProducts(searchResults), LAMBDA p : p.store = store)

\* C17 as stated: the options of the store filter are the distinct store
\* names, each once; with filter 'all' every product is displayed; with a
\* store selected exactly the products of that store are displayed; the
\* displayed list is always a sub-multiset of the result's products.
C17_Original ==
  ProductsShown =>
    /\ OptionsAreStoreNames
    /\ \A out \in Displayed :
         /\ filterStore = AllStores =>
              SameMultiset(out, DestructuredProducts(searchResults))
         /\ (ev.op = "setFilterStore" /\ ev.option > 1) =>
              SameMultiset(out, ProductsOf(ev.value))
         /\ SubMultiset(out, DestructuredProducts(searchResults))

\* C17 amended: the options of the store filter after 'All Stores' are the
\* distinct store names, each once; while filterStore is 'all' (the default,
\* the 'All Stores' option, or a selected store that is itself named 'all')
\* every product is displayed; with any other store selected exactly the
\* products of that store are displayed; the displayed list is always a
\* sub-multiset of the result's products.
C17_StoreFilter ==
  ProductsShown =>
    /\ OptionsAreStoreNames
    /\ \A out \in Displayed :
         /\ filterStore = AllStores =>
              SameMultiset(out, DestructuredProducts(searchResults))
         /\ filterStore # AllStores =>
              SameMultiset(out, ProductsOf(filterStore))
         /\ SubMultiset(out, DestructuredProducts(searchResults))

\* a store was selected and only some of the products are displayed
C17_Witness ==
  /\ ProductsShown
  /\ ev.op = "setFilterStore"
  /\ ev.option > 1
  /\ filterStore # AllStores
  /\ \E out \in Displayed :
       /\ out # <<>>
       /\ Len(out) < Len(DestructuredProducts(searchResults))

\* C18: in the populated style view the width of the confidence bar and the
\* displayed percentage are the confidence_score times 100 percent for every
\* score that is present, 0 included; the default 0.9 is used only when the
\* score is absent.
C18_ConfidenceBar ==
  (app = "style" /\ View(isAnalyzing, analysisResults) = "populated") =>
    IF "confidence_score" \in DOMAIN analysisResults
    THEN /\ ScoreFillWidth(analysisResults)
              = analysisResults.confidence_score
         /\ ScoreValue(analysisResults)
              = (analysisResults.confidence_score + 5) \div 10
    ELSE /\ ScoreFillWidth(analysisResults) = 900
         /\ ScoreValue(analysisResults) = 90

\* the dropped string is a URL that handleUrlDrop accepts
WellFormed(url) == url # <<>> /\ StartsWith(url, <<"h", "t", "t", "p">>) /\ ParseURL(url).ok

\* C19: a dropped URL is parsed to a hostname (the host without its 'www.')
\* and appended to the custom-store list unless a store with that hostname is
\* in the list: after any sequence of drops and removals no two entries have
\* the same hostname, and a drop of a URL whose hostname is in the list leaves
\* the list unchanged.
C19_DedupByHostname ==
  /\ [](\A i, j \in 1..Len(draggedUrls) :
          draggedUrls[i].url = draggedUrls[j].url => i = j)
  /\ [][(ev'.op = "handleUrlDrop" /\ WellFormed(ev'.url)) =>
          IF \E i \in 1..Len(draggedUrls) :
               draggedUrls[i].url = Domain(ev'.url)
          THEN draggedUrls' = draggedUrls
          ELSE /\ Len(draggedUrls') = Len(draggedUrls) + 1
               /\ SubSeq(draggedUrls', 1, Len(draggedUrls)) = draggedUrls
               /\ draggedUrls'[Len(draggedUrls')].url = Domain(ev'.url)]_vars

\* a second URL of a host whose store is in the list was dropped, after drops
\* and a removal, and nothing was added
C19_Witness ==
  /\ ev.op = "handleUrlDrop"
  /\ ev.url = <<"h", "t", "t", "p", ":", "/", "/", "w", "w", "w", ".", "a", ".", "c", "o", "/", "x">>
  /\ ~ev.added
  /\ Len(draggedUrls) = 2
  /\ draggedUrls[2].url = <<"a", ".", "c", "o">>

\* C20: a dropped string that is not a well-formed URL (empty, not starting
\* with http, or starting with http but not parsable) makes handleUrlDrop
\* complete without an error and leaves the custom-store list and all other
\* input state unchanged.
C20_MalformedIgnored ==
  [][(ev'.op = "handleUrlDrop" /\ ~WellFormed(ev'.url)) =>
       /\ ev'.threw = ""
       /\ UNCHANGED <<inputVars, uploadVars, shopVars, net>>]_vars

\* C23: whenever ProductResults shows products, its store filter is 'all' or
\* the store of one of the products of the result on display, and a result
\* that has products shows at least one of them
C23_FilterOfCurrentResult ==
  ProductsShown =>
    LET products == DestructuredProducts(searchResults)
    IN /\ filterStore = AllStores \/ filterStore \in StoreNames
       /\ products # <<>> => StoreFilter(products, filterStore) # <<>>

\* C24: a change of the sort key or of the store filter changes one variable
\* of the view state of ProductResults and nothing else: no call is issued or
\* settled, the photo, the loading flag and the result slot with its products
\* sequence stay as they were
C24_ViewStateOnly ==
  [][ev'.op \in {"setSortBy", "setFilterStore"} =>
       /\ UNCHANGED <<app, voiceVars, uploadVars, inputVars, shopVars, styleVars, net>>
       /\ ev'.op = "setSortBy" => UNCHANGED filterStore
       /\ ev'.op = "setFilterStore" => UNCHANGED sortBy]_vars

\* a sort key was chosen under which the grid shows the products in another
\* order than the result holds them
C24_Witness ==
  /\ ev.op = "setSortBy"
  /\ ProductsShown
  /\ DestructuredProducts(searchResults) \notin Displayed

\* the urls of the stores of a list
Urls(stores) == {stores[i].url : i \in 1..Len(stores)}

\* C25: the store list handleSearch sends, the selected popular stores
\* followed by the custom stores, holds no url twice, and a popular store
\* toggled twice leaves the stores that were selected before
C25_NoUrlTwice ==
  LET stores ==
        RequestBody(searchType, promptText, selectedStores \o draggedUrls,
                    photo).stores
  IN /\ \A i, j \in 1..Len(stores) : stores[i].url = stores[j].url => i = j
     /\ \A k \in 1..MaxPopular :
          Urls(Toggled(Toggled(selectedStores, PopularStores[k]),
                       PopularStores[k])) = Urls(selectedStores)

\* C26: the body of every dispatched search request carries image data
\* exactly when its type is photo or both, and prompt text only when its type
\* is prompt or both; the photo loaded at a prompt search and the text entered
\* at a photo search stay out of the body
C26_BodyMatchesType ==
  /\ [](\A r \in net : r.path = "/api/search-products" =>
          /\ r.body.image_base64 # Undefined
               <=> r.body.search_type \in {"photo", "both"}
          /\ r.body.search_prompt # Undefined
               => r.body.search_type \in {"prompt", "both"})
  /\ [][(ev'.op = "handleSearch" /\ Dispatched("/api/search-products")) =>
          \A r \in net' \ net :
            /\ ev'.type = "prompt" => r.body.image_base64 = Undefined
            /\ ev'.type = "photo" => r.body.search_prompt = Undefined]_vars

\* a prompt search was dispatched while a photo is loaded
C26_Witness ==
  /\ ev.op = "handleSearch"
  /\ ev.type = "prompt"
  /\ ev.alert = ""
  /\ photo # Null
  /\ \E r \in net : r.body.search_type = "prompt"

\* C27: the uploading flag of PhotoUpload is true exactly while a file read is
\* outstanding
C27_UploadingWhileReading ==
  uploading <=> reads # EmptyBag

\* C28: the photo slot that handleRetry cleared is not filled by the step that
\* follows the retry: a selection of a file only starts a read, and a read
\* that completes now was started before the retry
C28_RetryKeepsSlotEmpty ==
  [][ev.op = "handleRetry" => photo' = Null]_vars

\* C21: a final transcript is appended, after a space, to the question text
\* of that moment, and an interim transcript is shown and leaves the question
\* text as it is
C21_FinalAppended ==
  [][ev'.op = "recognition.onresult" =>
       /\ transcript' = ev'.segment
       /\ questionText' = IF ev'.final
                          THEN questionText \o <<" ">> \o ev'.segment
                          ELSE questionText]_vars

\* C22: a running recognition keeps running, as the same object, through
\* every step but a stop by the user and a recognition error
C22_SessionStaysActive ==
  [][(recognition.running
        /\ ev'.op \notin {"toggleListening", "recognition.onerror"})
       => recognition' = recognition]_vars

====
